---- MODULE Spec2Model ----
(***************************************************************************)
(* Call registry, signaling relay and connection lifecycle of the          *)
(* socket.io server in src/backend/index.js (lines 1-239), and its         *)
(* speech-to-text and caption fan-out pipeline.                            *)
(*                                                                         *)
(* Strings that the code takes apart (locales) are sequences of one-       *)
(* character strings; socket ids are 1..NumSockets and call ids are        *)
(* 101..100+NumCallIds, so that a room name can be either.                 *)
(***************************************************************************)
EXTENDS Integers, Sequences, FiniteSets, TLC

\* ------------------------------------------------------------------ bounds
NumSockets == 2
NumCallIds == 2
MaxParticipants == 2
\* final transcripts of a recognition session: in the caption
\* specification, in the caption order specification
MaxFinals == 1
MaxOrderedFinals == 2
\* connections and length of a participant list in the specifications of
\* three-party calls
NumPartySockets == 3
MaxPartyParticipants == 3

\* ------------------------------------------------------------- value sets
\* connections of the registry specification
RegistrySockets == 1..NumSockets
\* connections of the specifications of three-party calls
PartySockets == 1..NumPartySockets
Sockets == RegistrySockets \cup PartySockets
CallIds == {100 + i : i \in 1..NumCallIds}

\* `let currentCallId = null`
Null == 0

EnUS == <<"e", "n", "-", "U", "S">>
En == <<"e", "n">>
EsMX == <<"e", "s", "-", "M", "X">>
NoLang == <<>>

\* locale strings a client sends; NoLang stands for "", null and undefined
Locales == {NoLang, EsMX}
\* start-call payloads { userName, userLang }
StartPayloads == {[userName |-> "Alice", userLang |-> EsMX]}
SdpPayloads == {"sdp"}

\* ------------------------------------------------------------------ state
VARIABLES
    calls,            \* the registry: call id -> call record (a JS object)
    everAdded,        \* history: sockets ever put in the live call of an id
    conn,             \* per socket: "none", "connected", "disconnected"
    currentCallId,    \* closure variable of each connection
    sttLanguage,      \* closure variable of each connection
    shortLanguage,    \* closure variable of each connection
    recognizeStream,  \* closure variable: TRUE when a stream is open
    rooms,            \* socket.io rooms each socket joined with socket.join
    handled,          \* the event handled by the last step
    emitted,          \* what the last step emitted, in order
    stream,           \* the recognition session made for each connection
    finals,           \* final transcripts each session has emitted
    tasks,            \* runs of the "data" handler suspended at an await
    captionLog,       \* history: captions each connection received
    sessions          \* history: sessions streamingRecognize made for each

vars == <<calls, everAdded, conn, currentCallId, sttLanguage, shortLanguage,
          recognizeStream, rooms, handled, emitted, stream, finals, tasks,
          captionLog, sessions>>

\* the variables of the caption pipeline
pipeline == <<stream, finals, tasks, captionLog, sessions>>

\* ------------------------------------------------------- pure functions
\* s.split("-")[0]: the part of s before its first "-"
RECURSIVE SplitFirst(_)
SplitFirst(s) ==
    IF s = <<>> \/ Head(s) = "-" THEN <<>>
    ELSE <<Head(s)>> \o SplitFirst(Tail(s))

\* x || "en-US"
FullLang(langCode) == IF langCode = NoLang THEN EnUS ELSE langCode

\* lang.split("-")[0] || "en"
ShortLang(lang) == IF SplitFirst(lang) = <<>> THEN En ELSE SplitFirst(lang)

\* userName || "Unknown"
OwnerName(userName) == IF userName = "" THEN "Unknown" ELSE userName

\* ------------------------------------------------------------- helpers
Msg(to, event, payload) == [to |-> to, event |-> event, payload |-> payload]

Req(s, event, arg) == [socket |-> s, event |-> event, arg |-> arg]

RECURSIVE SetToSeq(_)
SetToSeq(S) ==
    IF S = {} THEN <<>>
    ELSE LET m == CHOOSE x \in S : \A y \in S : x <= y
         IN  <<m>> \o SetToSeq(S \ {m})

\* the sockets of a room: a socket is in the room of its own id and in the
\* rooms it joined; a disconnected socket has left every room
InRoom(room) ==
    {t \in Sockets : conn[t] = "connected" /\ (t = room \/ room \in rooms[t])}

\* io.emit(event, payload): to every connected socket
Broadcast(event, payload) ==
    LET to == SetToSeq({t \in Sockets : conn[t] = "connected"})
    IN  [i \in 1..Len(to) |-> Msg(to[i], event, payload)]

\* mutant: io.to(room).emit(event, payload), the sender included
ToRoomWithSender(s, room, event, payload) ==
    LET to == SetToSeq(InRoom(room))
    IN  [i \in 1..Len(to) |-> Msg(to[i], event, payload)]

\* socket.to(room).emit(event, payload): the room without the sender
ToRoomExcept(s, room, event, payload) ==
    LET to == SetToSeq(InRoom(room) \ {s})
    IN  [i \in 1..Len(to) |-> Msg(to[i], event, payload)]

\* participants.filter((id) => id !== socket.id)
Filter(seq, s) == SelectSeq(seq, LAMBDA x : x # s)

Members(id) == {calls[id].participants[i] : i \in 1..Len(calls[id].participants)}

\* delete obj[key]
Delete(f, key) == [k \in DOMAIN f \ {key} |-> f[k]]

\* obj[key] = value
Put(f, key, value) == [k \in DOMAIN f \cup {key} |-> IF k = key THEN value ELSE f[k]]

\* {}: an object with no keys
EmptyMap == [k \in {} |-> Null]

\* ------------------------------------------------------------------ Init
Init ==
    /\ calls = EmptyMap
    /\ everAdded = [id \in CallIds |-> {}]
    /\ conn = [s \in Sockets |-> "none"]
    /\ currentCallId = [s \in Sockets |-> Null]
    /\ sttLanguage = [s \in Sockets |-> EnUS]
    /\ shortLanguage = [s \in Sockets |-> En]
    /\ recognizeStream = [s \in Sockets |-> FALSE]
    /\ rooms = [s \in Sockets |-> {}]
    /\ handled = Req(Null, "listen", Null)
    /\ emitted = <<>>
    /\ stream = [s \in Sockets |-> "none"]
    /\ finals = [s \in Sockets |-> 0]
    /\ tasks = {}
    /\ captionLog = [s \in Sockets |-> <<>>]
    /\ sessions = [s \in Sockets |-> 0]

\* --------------------------------------------------------------- actions
\* io.on("connection")
Connect(s) ==
    /\ conn[s] = "none"
    /\ conn' = [conn EXCEPT ![s] = "connected"]
    /\ recognizeStream' = [recognizeStream EXCEPT ![s] = FALSE]
    /\ currentCallId' = [currentCallId EXCEPT ![s] = Null]
    /\ sttLanguage' = [sttLanguage EXCEPT ![s] = EnUS]
    /\ shortLanguage' = [shortLanguage EXCEPT ![s] = En]
    /\ handled' = Req(s, "connection", Null)
    /\ emitted' = <<>>
    /\ UNCHANGED <<calls, everAdded, rooms, pipeline>>

\* socket.on("set-language")
SetLanguage(s, langCode) ==
    /\ conn[s] = "connected"
    /\ LET stt == FullLang(langCode)
           short == ShortLang(stt)
       IN  /\ sttLanguage' = [sttLanguage EXCEPT ![s] = stt]
           /\ shortLanguage' = [shortLanguage EXCEPT ![s] = short]
           /\ IF currentCallId[s] # Null /\ currentCallId[s] \in DOMAIN calls
              THEN calls' = [calls EXCEPT ![currentCallId[s]].languages =
                                Put(@, s, short)]
              ELSE calls' = calls
    /\ handled' = Req(s, "set-language", langCode)
    /\ emitted' = <<>>
    /\ UNCHANGED <<everAdded, conn, currentCallId, recognizeStream, rooms,
                   pipeline>>

\* A suspended run of the "data" handler holds references to the call
\* object it found (`call`) and to the array it iterates
\* (`call.participants`). While such an object is the one the registry
\* holds, the run sees every change made to it; from the moment the
\* registry holds another object, the run keeps the object as it then was.

\* `call.participants = call.participants.filter(...)`: the runs iterating
\* the participant array arr of the call id keep that array
DetachArray(ts, id, arr) ==
    {IF t.partsLive /\ t.callId = id
     THEN [t EXCEPT !.partsLive = FALSE, !.parts = arr]
     ELSE t : t \in ts}

\* `calls[id] = {...}` over a live call, `delete calls[id]`: the runs
\* holding the call object of id keep it, its language map being langs
DetachCall(ts, id, langs) ==
    {IF t.callLive /\ t.callId = id
     THEN [t EXCEPT !.callLive = FALSE, !.langs = langs]
     ELSE t : t \in ts}

\* const callId = uuidv4().slice(0, 8): 32 random bits, any value of the
\* id space, whether or not a call with that id is live
UuidDraws == CallIds

\* the object stored by start-call
NewCall(s, name, lang) ==
    [participants |-> <<s>>,
     languages |-> Put(EmptyMap, s, ShortLang(lang)),
     ownerName |-> name,
     ownerLang |-> lang]

\* socket.on("start-call")
StartCall(s, userName, userLang, callId) ==
    /\ conn[s] = "connected"
    /\ LET name == OwnerName(userName)
           lang == FullLang(userLang)
       IN  /\ sttLanguage' = [sttLanguage EXCEPT ![s] = lang]
           /\ shortLanguage' = [shortLanguage EXCEPT ![s] = ShortLang(lang)]
           /\ calls' = Put(calls, callId, NewCall(s, name, lang))
    /\ everAdded' = [everAdded EXCEPT ![callId] = {s}]
    /\ currentCallId' = [currentCallId EXCEPT ![s] = callId]
    /\ rooms' = [rooms EXCEPT ![s] = @ \cup {callId}]
    /\ handled' = Req(s, "start-call", callId)
    /\ emitted' = <<Msg(s, "call-id", callId)>> \o
                  Broadcast("call-started", callId)
    /\ tasks' = IF callId \in DOMAIN calls
                THEN DetachCall(DetachArray(tasks, callId,
                                            calls[callId].participants),
                                callId, calls[callId].languages)
                ELSE tasks
    /\ UNCHANGED <<conn, recognizeStream, stream, finals, captionLog,
                   sessions>>

\* socket.on("start-call") emitted with no payload: the parameter
\* ({ userName, userLang }) destructures undefined, which throws a
\* TypeError before the first statement of the handler
StartCallNoPayload(s) ==
    /\ conn[s] = "connected"
    /\ handled' = Req(s, "start-call", Null)
    /\ emitted' = <<>>
    /\ UNCHANGED <<calls, everAdded, conn, currentCallId, sttLanguage,
                   shortLanguage, recognizeStream, rooms, pipeline>>

\* mutant: the participant is pushed, its language is not recorded
AddParticipantNoLanguage(call, s, short) ==
    [call EXCEPT !.participants = Append(@, s)]

\* participants.push(socket.id); languages[socket.id] = shortLanguage
AddParticipant(call, s, short) ==
    [call EXCEPT !.participants = Append(@, s),
                 !.languages = Put(@, s, short)]

\* socket.on("join-call"), for participant lists shorter than cap
JoinCallUpTo(s, callId, cap) ==
    /\ conn[s] = "connected"
    /\ handled' = Req(s, "join-call", callId)
    /\ IF callId \notin DOMAIN calls
       THEN /\ emitted' = <<Msg(s, "call-error", "Call does not exist!")>>
            /\ UNCHANGED <<calls, everAdded, currentCallId, rooms>>
       ELSE /\ Len(calls[callId].participants) < cap
            /\ currentCallId' = [currentCallId EXCEPT ![s] = callId]
            /\ rooms' = [rooms EXCEPT ![s] = @ \cup {callId}]
            /\ calls' = [calls EXCEPT ![callId] =
                            AddParticipant(@, s, shortLanguage[s])]
            /\ everAdded' = [everAdded EXCEPT ![callId] = @ \cup {s}]
            /\ emitted' = <<Msg(s, "joined-call", callId)>>
    /\ UNCHANGED <<conn, sttLanguage, shortLanguage, recognizeStream,
                   pipeline>>

\* socket.on("join-call")
JoinCall(s, callId) == JoinCallUpTo(s, callId, MaxParticipants)

\* `const calls = {}` inherits the properties of Object.prototype
\* ("constructor", "toString", ...): for such a name calls[name] is truthy
\* although the registry has no such call; 200 stands for these names
InheritedKeys == {200}

\* socket.on("join-call") with the name of an inherited property:
\* !calls[callId] is false, currentCallId and the room are set, then
\* calls[callId].participants.push throws a TypeError
JoinCallInheritedKey(s, key) ==
    /\ conn[s] = "connected"
    /\ handled' = Req(s, "join-call", key)
    /\ currentCallId' = [currentCallId EXCEPT ![s] = key]
    /\ rooms' = [rooms EXCEPT ![s] = @ \cup {key}]
    /\ emitted' = <<>>
    /\ UNCHANGED <<calls, everAdded, conn, sttLanguage, shortLanguage,
                   recognizeStream, pipeline>>

\* mutant: only the calls that still have a connected participant
CallListOfConnected ==
    {[callId |-> id, ownerName |-> calls[id].ownerName,
      ownerLang |-> calls[id].ownerLang] :
        id \in {c \in DOMAIN calls :
                   \E p \in Members(c) : conn[p] = "connected"}}

\* Object.entries(calls).map(...): one summary per key of the registry
CallList ==
    {[callId |-> id, ownerName |-> calls[id].ownerName,
      ownerLang |-> calls[id].ownerLang] : id \in DOMAIN calls}

\* socket.on("get-active-calls")
GetActiveCalls(s) ==
    /\ conn[s] = "connected"
    /\ handled' = Req(s, "get-active-calls", Null)
    /\ emitted' = <<Msg(s, "active-calls", CallList)>>
    /\ UNCHANGED <<calls, everAdded, conn, currentCallId, sttLanguage,
                   shortLanguage, recognizeStream, rooms, pipeline>>

\* socket.to(callId).emit(kind, payload), the body of the three relays
Relay(s, kind, callId, payload) ==
    /\ conn[s] = "connected"
    /\ handled' = Req(s, kind, callId)
    /\ emitted' = ToRoomExcept(s, callId, kind, payload)
    /\ UNCHANGED <<calls, everAdded, conn, currentCallId, sttLanguage,
                   shortLanguage, recognizeStream, rooms, pipeline>>

\* socket.on("offer")
Offer(s, callId, sdp) == Relay(s, "offer", callId, sdp)

\* socket.on("answer")
Answer(s, callId, sdp) == Relay(s, "answer", callId, sdp)

\* socket.on("ice-candidate")
IceCandidate(s, callId, candidate) == Relay(s, "ice-candidate", callId, candidate)

\* mutant: the call is kept when its last participant leaves
LeaveCallKeepsEmpty(reg, id, s) ==
    [reg EXCEPT ![id] = [reg[id] EXCEPT !.participants = Filter(@, s),
                                        !.languages = Delete(@, s)]]

\* the registry after the leave of s from the call id (disconnect, 208-213)
LeaveCall(reg, id, s) ==
    LET left == [reg[id] EXCEPT !.participants = Filter(@, s),
                                !.languages = Delete(@, s)]
    IN  IF Len(left.participants) = 0
        THEN Delete(reg, id)
        ELSE [reg EXCEPT ![id] = left]

\* mutant: the registry block is entered without the test of
\* currentCallId, and throws when it names no call
DisconnectUnguarded(s) ==
    /\ conn[s] = "connected"
    /\ conn' = [conn EXCEPT ![s] = "disconnected"]
    /\ rooms' = [rooms EXCEPT ![s] = {}]
    /\ recognizeStream' = [recognizeStream EXCEPT ![s] = FALSE]
    /\ stream' = [stream EXCEPT ![s] =
                      IF recognizeStream[s] /\ @ = "open" THEN "ended" ELSE @]
    /\ IF currentCallId[s] # Null /\ currentCallId[s] \in DOMAIN calls
       THEN LET id == currentCallId[s]
                kept == DetachArray(tasks, id, calls[id].participants)
            IN  /\ calls' = LeaveCall(calls, id, s)
                /\ everAdded' = [everAdded EXCEPT ![id] =
                                    IF id \in DOMAIN calls' THEN @ ELSE {}]
                /\ tasks' = IF id \in DOMAIN calls'
                            THEN kept
                            ELSE DetachCall(kept, id,
                                            Delete(calls[id].languages, s))
       ELSE UNCHANGED <<calls, everAdded, tasks>>
    /\ handled' = Req(s, "disconnect",
                      IF currentCallId[s] \in DOMAIN calls
                      THEN "ok" ELSE "registryThrows")
    /\ emitted' = <<>>
    /\ UNCHANGED <<currentCallId, sttLanguage, shortLanguage, finals,
                   captionLog, sessions>>

\* socket.on("disconnect"); socket.io has removed the socket from its rooms
Disconnect(s) ==
    /\ conn[s] = "connected"
    /\ conn' = [conn EXCEPT ![s] = "disconnected"]
    /\ rooms' = [rooms EXCEPT ![s] = {}]
    /\ recognizeStream' = [recognizeStream EXCEPT ![s] = FALSE]
    /\ stream' = [stream EXCEPT ![s] =
                      IF recognizeStream[s] /\ @ = "open" THEN "ended" ELSE @]
    /\ IF currentCallId[s] # Null /\ currentCallId[s] \in DOMAIN calls
       THEN LET id == currentCallId[s]
                kept == DetachArray(tasks, id, calls[id].participants)
            IN  /\ calls' = LeaveCall(calls, id, s)
                /\ everAdded' = [everAdded EXCEPT ![id] =
                                    IF id \in DOMAIN calls' THEN @ ELSE {}]
                /\ tasks' = IF id \in DOMAIN calls'
                            THEN kept
                            ELSE DetachCall(kept, id,
                                            Delete(calls[id].languages, s))
       ELSE UNCHANGED <<calls, everAdded, tasks>>
    /\ handled' = Req(s, "disconnect", "ok")
    /\ emitted' = <<>>
    /\ UNCHANGED <<currentCallId, sttLanguage, shortLanguage, finals,
                   captionLog, sessions>>

\* socket.on("disconnect") when recognizeStream.end() throws: the handler
\* has no try, so the throw ends it before `recognizeStream = null` and
\* before the registry block
DisconnectEndThrows(s) ==
    /\ conn[s] = "connected"
    /\ recognizeStream[s]
    /\ conn' = [conn EXCEPT ![s] = "disconnected"]
    /\ rooms' = [rooms EXCEPT ![s] = {}]
    /\ handled' = Req(s, "disconnect", "endThrows")
    /\ emitted' = <<>>
    /\ UNCHANGED <<calls, everAdded, currentCallId, sttLanguage,
                   shortLanguage, recognizeStream, pipeline>>

\* ------------------------------------------------- the caption pipeline
\* Texts are sequences, as locales are: the empty string is <<>>.
EmptyText == <<>>
\* the transcript of an interim result
PartialText == <<"partial">>
\* the transcript of the n-th final result of a session
FinalText(n) == <<"final", n>>
\* what the translation service answers for (text, source, target)
Translated(text, src, tgt) == <<"translated", text, src, tgt>>

\* how a request to the translation service ends: with a translation, with
\* a body that has no (or an empty) translation field, with a status that
\* is not ok, with a rejected fetch, with a body that is not JSON
TranslateOutcomes == {"ok", "noTranslation", "httpError", "networkError", "badJson"}

\* mutant: a failed request yields the empty text instead of the original
TranslateWithLingvaDropsText(sourceLang, targetLang, text, outcome) ==
    CASE outcome = "ok" -> Translated(text, sourceLang, targetLang)
      [] OTHER -> EmptyText

\* translateWithLingva(sourceLang, targetLang, text), ending with outcome
TranslateWithLingva(sourceLang, targetLang, text, outcome) ==
    CASE outcome = "ok" -> Translated(text, sourceLang, targetLang)
      [] outcome = "noTranslation" -> EmptyText
      [] OTHER -> text

\* the payload of translated-transcript
Caption(original, translated, from, to) ==
    [original |-> original, translated |-> translated, from |-> from, to |-> to]

\* socket.emit / io.to(id).emit: nothing reaches a closed connection
Deliver(to, event, payload) ==
    IF conn[to] = "connected" THEN <<Msg(to, event, payload)>> ELSE <<>>

\* the array a run iterates, and the language map of its call object
TaskArray(t) == IF t.partsLive THEN calls[t.callId].participants ELSE t.parts

TaskLangs(t) == IF t.callLive THEN calls[t.callId].languages ELSE t.langs

\* call.languages[otherSocketId] || "en"
TargetLang(t, other) ==
    IF other \in DOMAIN TaskLangs(t) THEN TaskLangs(t)[other] ELSE En

\* a run of the "data" handler for the final transcript text of s, at the
\* head of its loop over the participants of the call id; audience is
\* history: the other participants the call has when the run starts
NewTask(s, n, id) ==
    [speaker |-> s, seq |-> n, text |-> FinalText(n), callId |-> id,
     callLive |-> TRUE, langs |-> EmptyMap, partsLive |-> TRUE, parts |-> <<>>,
     idx |-> 1, to |-> Null, src |-> En, tgt |-> En, hung |-> FALSE,
     audience |-> IF id \in DOMAIN calls THEN Members(id) \ {s} ELSE {}]

\* mutant: no same-language branch, every other participant is translated for
RECURSIVE FanOutAlwaysTranslates(_, _)
FanOutAlwaysTranslates(t, out) ==
    IF t.idx > Len(TaskArray(t))
    THEN [out |-> out, suspended |-> {}]
    ELSE LET other == TaskArray(t)[t.idx]
             next == [t EXCEPT !.idx = @ + 1]
         IN  IF other = t.speaker
             THEN FanOutAlwaysTranslates(next, out)
             ELSE [out |-> out,
                   suspended |-> {[next EXCEPT !.to = other,
                                               !.src = shortLanguage[t.speaker],
                                               !.tgt = TargetLang(t, other)]}]

\* for (const otherSocketId of call.participants) { ... }, from position
\* t.idx up to the next await or to the end of the array: what it emits,
\* and the run as suspended (none when the loop has ended)
RECURSIVE FanOut(_, _)
FanOut(t, out) ==
    IF t.idx > Len(TaskArray(t))
    THEN [out |-> out, suspended |-> {}]
    ELSE LET other == TaskArray(t)[t.idx]
             targetLang == TargetLang(t, other)
             from == shortLanguage[t.speaker]
             next == [t EXCEPT !.idx = @ + 1]
         IN  IF other = t.speaker
             THEN FanOut(next, out)
             ELSE IF targetLang = from
                  THEN FanOut(next, out \o Deliver(other, "translated-transcript",
                                    Caption(t.text, t.text, from, targetLang)))
                  ELSE [out |-> out,
                        suspended |-> {[next EXCEPT !.to = other, !.src = from,
                                                    !.tgt = targetLang]}]

\* the history of captions after the run t has emitted out
Logged(t, out) ==
    [q \in Sockets |->
        captionLog[q] \o
        [i \in 1..Cardinality({j \in 1..Len(out) :
                 out[j].to = q /\ out[j].event = "translated-transcript"})
            |-> <<t.speaker, t.seq>>]]

\* socket.on("audio-data"): opens the session when recognizeStream is null,
\* then writes the chunk; a throw of either call is caught and reported
AudioOutcomes == {"ok", "openThrows", "writeThrows"}

\* mutant: every chunk opens a session, whether or not one is held
AudioDataOpensEveryChunk(s, outcome) ==
    /\ conn[s] = "connected"
    /\ handled' = Req(s, "audio-data", outcome)
    /\ \/ /\ outcome = "ok"
          /\ emitted' = <<>>
          /\ recognizeStream' = [recognizeStream EXCEPT ![s] = TRUE]
          /\ stream' = [stream EXCEPT ![s] =
                           "open"]
          /\ sessions' = [sessions EXCEPT ![s] =
                             @ + 1]
       \/ /\ outcome = "openThrows"
          /\ ~recognizeStream[s]
          /\ emitted' = <<Msg(s, "speech-error", "err")>>
          /\ UNCHANGED <<recognizeStream, stream, sessions>>
       \/ /\ outcome = "writeThrows"
          /\ emitted' = <<Msg(s, "speech-error", "err")>>
          /\ recognizeStream' = [recognizeStream EXCEPT ![s] = TRUE]
          /\ stream' = [stream EXCEPT ![s] =
                           "open"]
          /\ sessions' = [sessions EXCEPT ![s] =
                             @ + 1]
    /\ UNCHANGED <<calls, everAdded, conn, currentCallId, sttLanguage,
                   shortLanguage, rooms, finals, tasks, captionLog>>

AudioData(s, outcome) ==
    /\ conn[s] = "connected"
    /\ handled' = Req(s, "audio-data", outcome)
    /\ \/ /\ outcome = "ok"
          /\ emitted' = <<>>
          /\ recognizeStream' = [recognizeStream EXCEPT ![s] = TRUE]
          /\ stream' = [stream EXCEPT ![s] =
                           IF recognizeStream[s] THEN @ ELSE "open"]
          /\ sessions' = [sessions EXCEPT ![s] =
                             IF recognizeStream[s] THEN @ ELSE @ + 1]
       \/ /\ outcome = "openThrows"
          /\ ~recognizeStream[s]
          /\ emitted' = <<Msg(s, "speech-error", "err")>>
          /\ UNCHANGED <<recognizeStream, stream, sessions>>
       \/ /\ outcome = "writeThrows"
          /\ emitted' = <<Msg(s, "speech-error", "err")>>
          /\ recognizeStream' = [recognizeStream EXCEPT ![s] = TRUE]
          /\ stream' = [stream EXCEPT ![s] =
                           IF recognizeStream[s] THEN @ ELSE "open"]
          /\ sessions' = [sessions EXCEPT ![s] =
                             IF recognizeStream[s] THEN @ ELSE @ + 1]
    /\ UNCHANGED <<calls, everAdded, conn, currentCallId, sttLanguage,
                   shortLanguage, rooms, finals, tasks, captionLog>>

\* the kinds of "data" events: no result or no transcript, an interim
\* result, a final result
DataKinds == {"empty", "partial", "final"}

\* mutant: an interim result is fanned out like a final one
OnDataFansOutPartials(s, kind) ==
    /\ stream[s] \in {"open", "ended"}
    /\ handled' = Req(s, "data", kind)
    /\ \/ /\ kind = "empty"
          /\ emitted' = <<>>
          /\ UNCHANGED <<finals, tasks, captionLog>>
       \/ /\ kind = "partial"
          /\ UNCHANGED finals
          /\ LET echo == Deliver(s, "transcript", PartialText)
                 task == [NewTask(s, finals[s], currentCallId[s])
                             EXCEPT !.text = PartialText]
             IN  IF currentCallId[s] # Null /\ currentCallId[s] \in DOMAIN calls
                 THEN LET run == FanOut(task, <<>>)
                      IN  /\ emitted' = echo \o run.out
                          /\ tasks' = tasks \cup run.suspended
                          /\ captionLog' = Logged(task, run.out)
                 ELSE /\ emitted' = echo
                      /\ UNCHANGED <<tasks, captionLog>>
       \/ /\ kind = "final"
          /\ finals' = [finals EXCEPT ![s] = @ + 1]
          /\ LET n == finals[s] + 1
                 echo == Deliver(s, "transcript", FinalText(n))
             IN  IF currentCallId[s] # Null /\ currentCallId[s] \in DOMAIN calls
                 THEN LET run == FanOut(NewTask(s, n, currentCallId[s]), <<>>)
                      IN  /\ emitted' = echo \o run.out
                          /\ tasks' = tasks \cup run.suspended
                          /\ captionLog' = Logged(NewTask(s, n, Null), run.out)
                 ELSE /\ emitted' = echo
                      /\ UNCHANGED <<tasks, captionLog>>
    /\ UNCHANGED <<sessions, calls, everAdded, conn, currentCallId, sttLanguage,
                   shortLanguage, recognizeStream, rooms, stream>>

\* .on("data", async (data) => ...) up to its first await; the session
\* still delivers results after end() was called on it
OnData(s, kind) ==
    /\ stream[s] \in {"open", "ended"}
    /\ handled' = Req(s, "data", kind)
    /\ \/ /\ kind = "empty"
          /\ emitted' = <<>>
          /\ UNCHANGED <<finals, tasks, captionLog>>
       \/ /\ kind = "partial"
          /\ emitted' = Deliver(s, "transcript", PartialText)
          /\ UNCHANGED <<finals, tasks, captionLog>>
       \/ /\ kind = "final"
          /\ finals' = [finals EXCEPT ![s] = @ + 1]
          /\ LET n == finals[s] + 1
                 echo == Deliver(s, "transcript", FinalText(n))
             IN  IF currentCallId[s] # Null /\ currentCallId[s] \in DOMAIN calls
                 THEN LET run == FanOut(NewTask(s, n, currentCallId[s]), <<>>)
                      IN  /\ emitted' = echo \o run.out
                          /\ tasks' = tasks \cup run.suspended
                          /\ captionLog' = Logged(NewTask(s, n, Null), run.out)
                 ELSE /\ emitted' = echo
                      /\ UNCHANGED <<tasks, captionLog>>
    /\ UNCHANGED <<sessions, calls, everAdded, conn, currentCallId, sttLanguage,
                   shortLanguage, recognizeStream, rooms, stream>>

\* the "data" handler from the return of `await translateWithLingva(...)`
\* to its next await or to its end
TranslateReturn(t, outcome) ==
    /\ t \in tasks
    /\ ~t.hung
    /\ handled' = Req(t.speaker, "translated", outcome)
    /\ LET translation == TranslateWithLingva(t.src, t.tgt, t.text, outcome)
           run == FanOut(t, Deliver(t.to, "translated-transcript",
                            Caption(t.text, translation,
                                    shortLanguage[t.speaker], t.tgt)))
       IN  /\ emitted' = run.out
           /\ tasks' = (tasks \ {t}) \cup run.suspended
           /\ captionLog' = Logged(t, run.out)
    /\ UNCHANGED <<sessions, calls, everAdded, conn, currentCallId, sttLanguage,
                   shortLanguage, recognizeStream, rooms, stream, finals>>

\* fetch(url) has no timeout: a request the service never answers leaves
\* the run at its await for ever
TranslateHangs(t) ==
    /\ t \in tasks
    /\ ~t.hung
    /\ handled' = Req(t.speaker, "translate-hangs", Null)
    /\ emitted' = <<>>
    /\ tasks' = (tasks \ {t}) \cup {[t EXCEPT !.hung = TRUE]}
    /\ UNCHANGED <<sessions, calls, everAdded, conn, currentCallId, sttLanguage,
                   shortLanguage, recognizeStream, rooms, stream, finals,
                   captionLog>>

\* .on("error", (err) => ...): the session has failed
StreamError(s) ==
    /\ stream[s] \in {"open", "ended"}
    /\ stream' = [stream EXCEPT ![s] = "errored"]
    /\ handled' = Req(s, "stream-error", Null)
    /\ emitted' = Deliver(s, "speech-error", "err")
    /\ UNCHANGED <<sessions, calls, everAdded, conn, currentCallId, sttLanguage,
                   shortLanguage, recognizeStream, rooms, finals, tasks,
                   captionLog>>

\* ------------------------------------------------------------------ Next
\* the callId field of a signaling message
RelayRooms == CallIds

Next ==
    \/ \E s \in RegistrySockets : Connect(s)
    \/ \E s \in Sockets, l \in Locales : SetLanguage(s, l)
    \/ \E s \in Sockets, p \in StartPayloads, id \in UuidDraws :
          StartCall(s, p.userName, p.userLang, id)
    \/ \E s \in Sockets, id \in CallIds : JoinCall(s, id)
    \/ \E s \in Sockets : GetActiveCalls(s)
    \/ \E s \in Sockets, r \in RelayRooms, p \in SdpPayloads :
          Offer(s, r, p)
    \/ \E s \in Sockets, r \in RelayRooms, p \in SdpPayloads :
          Answer(s, r, p)
    \/ \E s \in Sockets, r \in RelayRooms, p \in SdpPayloads :
          IceCandidate(s, r, p)
    \/ \E s \in Sockets : Disconnect(s)

Spec == Init /\ [][Next]_vars

\* The caption specification: every connection may start or join the one
\* call id drawn, the connections of Speakers stream audio.
CaptionDraws == {101}
Speakers == {1}

NextCaption ==
    \/ \E s \in RegistrySockets : Connect(s)
    \/ \E s \in Sockets, l \in Locales : SetLanguage(s, l)
    \/ \E s \in Sockets, p \in StartPayloads, id \in CaptionDraws :
          StartCall(s, p.userName, p.userLang, id)
    \/ \E s \in Sockets, id \in CaptionDraws : JoinCall(s, id)
    \/ \E s \in Speakers, o \in AudioOutcomes : AudioData(s, o)
    \/ \E s \in Speakers, k \in DataKinds :
          (k = "final" => finals[s] < MaxFinals) /\ OnData(s, k)
    \/ \E t \in tasks, o \in TranslateOutcomes : TranslateReturn(t, o)
    \/ \E s \in Speakers : StreamError(s)
    \/ \E s \in Sockets : Disconnect(s)

SpecCaption == Init /\ [][NextCaption]_vars

\* The caption order specification: several final transcripts of one
\* session, whose translations return in any order.
NextOrder ==
    \/ \E s \in RegistrySockets : Connect(s)
    \/ \E s \in Sockets, p \in StartPayloads, id \in CaptionDraws :
          StartCall(s, p.userName, p.userLang, id)
    \/ \E s \in Sockets, id \in CaptionDraws : JoinCall(s, id)
    \/ \E s \in Speakers : AudioData(s, "ok")
    \/ \E s \in Speakers : finals[s] < MaxOrderedFinals /\ OnData(s, "final")
    \/ \E t \in tasks : TranslateReturn(t, "ok")

SpecOrder == Init /\ [][NextOrder]_vars

\* The three-party caption specification: a speaker and two listeners,
\* translation requests that return or hang.
NextParty ==
    \/ \E s \in PartySockets : Connect(s)
    \/ \E s \in Speakers, p \in StartPayloads, id \in CaptionDraws :
          StartCall(s, p.userName, p.userLang, id)
    \/ \E s \in Sockets \ Speakers, id \in CaptionDraws :
          JoinCallUpTo(s, id, MaxPartyParticipants)
    \/ \E s \in Speakers : AudioData(s, "ok")
    \/ \E s \in Speakers : finals[s] < MaxFinals /\ OnData(s, "final")
    \/ \E t \in tasks : TranslateReturn(t, "ok")
    \/ \E t \in tasks : TranslateHangs(t)

SpecParty == Init /\ [][NextParty]_vars

\* The three-party signaling specification: calls that are replaced and
\* deleted while connections stay in their rooms.
\* the callId field of a signaling message: a call id, or the id of a
\* socket, which names the room socket.io keeps for that socket alone
SignalRooms == CaptionDraws \cup Sockets

NextSignal ==
    \/ \E s \in PartySockets : Connect(s)
    \/ \E s \in Sockets, p \in StartPayloads, id \in CaptionDraws :
          StartCall(s, p.userName, p.userLang, id)
    \/ \E s \in Sockets, id \in CaptionDraws : JoinCall(s, id)
    \/ \E s \in Sockets, r \in SignalRooms, p \in SdpPayloads : Offer(s, r, p)
    \/ \E s \in Sockets, r \in SignalRooms, p \in SdpPayloads : Answer(s, r, p)
    \/ \E s \in Sockets, r \in SignalRooms, p \in SdpPayloads :
          IceCandidate(s, r, p)
    \/ \E s \in Sockets : Disconnect(s)

SpecSignal == Init /\ [][NextSignal]_vars

\* A throw out of a socket listener is caught by nobody (socket.io does
\* not catch it and the server installs no uncaughtException handler): the
\* process exits and handles nothing more. The last step handled tells it.
Exited ==
    \/ handled.event = "join-call" /\ handled.arg \in InheritedKeys
    \/ handled.event = "start-call" /\ handled.arg = Null
    \/ handled.event = "disconnect" /\ handled.arg # "ok"

\* The teardown specification: connections that stream audio and
\* disconnect, the close of the session succeeding or throwing, that ask
\* to join any name and that start calls with no payload; a step that
\* throws is the last step of the server.
NextTeardown ==
    \/ \E s \in RegistrySockets : ~Exited /\ Connect(s)
    \/ \E s \in Sockets, l \in Locales : ~Exited /\ SetLanguage(s, l)
    \/ \E s \in Sockets, p \in StartPayloads, id \in CaptionDraws :
          ~Exited /\ StartCall(s, p.userName, p.userLang, id)
    \/ \E s \in Sockets, id \in CaptionDraws : ~Exited /\ JoinCall(s, id)
    \/ \E s \in Sockets : ~Exited /\ AudioData(s, "ok")
    \/ \E s \in Sockets : ~Exited /\ StreamError(s)
    \/ \E s \in Sockets : ~Exited /\ Disconnect(s)
    \/ \E s \in Sockets : ~Exited /\ DisconnectEndThrows(s)
    \/ \E s \in Sockets, key \in InheritedKeys :
          ~Exited /\ JoinCallInheritedKey(s, key)
    \/ \E s \in Sockets : ~Exited /\ StartCallNoPayload(s)

SpecTeardown == Init /\ [][NextTeardown]_vars

TypeOK ==
    /\ DOMAIN calls \subseteq CallIds
    /\ \A id \in DOMAIN calls :
          /\ Members(id) \subseteq Sockets
          /\ DOMAIN calls[id].languages \subseteq Sockets
    /\ \A s \in Sockets :
          currentCallId[s] \in CallIds \cup InheritedKeys \cup {Null}

\* ---------------------------------------------------------------- claims
RelayKinds == {"offer", "answer", "ice-candidate"}

\* the sockets the last step emitted an event of the given kinds to
Recipients(kinds) ==
    {emitted[i].to : i \in {j \in 1..Len(emitted) : emitted[j].event \in kinds}}

\* number of occurrences of s in the participant list of the call id
Occurrences(reg, id, s) ==
    Cardinality({i \in 1..Len(reg[id].participants) : reg[id].participants[i] = s})

\* C1: a start-call whose drawn identifier is that of a call still in the
\* registry leaves that call (participants, languages, owner fields) as it
\* was, so no two live calls ever share an identifier.
C1_StartCallKeepsLiveCall ==
    [][\A id \in DOMAIN calls :
          (handled'.event = "start-call" /\ handled'.arg = id)
              => (id \in DOMAIN calls' /\ calls'[id] = calls[id])]_vars

\* C2: a join-call(id) from a connection that is already in the participant
\* list of the call id leaves it occurring exactly once in that list.
C2_RejoinIsIdempotent ==
    [][\A id \in DOMAIN calls :
          (/\ handled'.event = "join-call"
           /\ handled'.arg = id
           /\ handled'.socket \in Members(id)
           /\ id \in DOMAIN calls')
              => Occurrences(calls', id, handled'.socket) = 1]_vars

\* C3: every connection is in the participant list of at most one call.
C3_AtMostOneCall ==
    \A s \in Sockets :
        Cardinality({id \in DOMAIN calls : s \in Members(id)}) <= 1

\* C4: once every connection that was ever added to a call has
\* disconnected, the call is no longer in the registry.
C4_LastLeaveDeletesCall ==
    \A id \in CallIds :
        (everAdded[id] # {} /\ \A p \in everAdded[id] : conn[p] = "disconnected")
            => id \notin DOMAIN calls

\* C5: a connection whose disconnect handler has run is in no call's
\* participant list and in no call's language map.
C5_DisconnectTearsDown ==
    \A p \in Sockets :
        conn[p] = "disconnected"
            => \A id \in DOMAIN calls :
                   p \notin Members(id) /\ p \notin DOMAIN calls[id].languages

\* C6: every call in the registry has a non-empty participant list.
C6_NoEmptyCall ==
    \A id \in DOMAIN calls : Len(calls[id].participants) > 0

\* C6 witness: a disconnect has removed a member from a call that stays in
\* the registry with its other member.
C6_Witness ==
    /\ handled.event = "disconnect"
    /\ currentCallId[handled.socket] \in DOMAIN calls
    /\ handled.socket \notin Members(currentCallId[handled.socket])
    /\ handled.socket \in everAdded[currentCallId[handled.socket]]

\* C7: the keys of every call's language map are members of that call.
C7_LanguagesOfMembersOnly ==
    \A id \in DOMAIN calls : DOMAIN calls[id].languages \subseteq Members(id)

\* C8: when join-call(id) from P emits joined-call, the call id has P in
\* its participant list and maps P to the short language P had cached when
\* the join was handled.
C8_JoinRecordsMemberAndLanguage ==
    [][(handled'.event = "join-call" /\ handled'.socket \in Recipients({"joined-call"})')
          => LET P == handled'.socket
                 id == handled'.arg
             IN  /\ id \in DOMAIN calls'
                 /\ \E i \in 1..Len(calls'[id].participants) :
                        calls'[id].participants[i] = P
                 /\ P \in DOMAIN calls'[id].languages
                 /\ calls'[id].languages[P] = shortLanguage[P]]_vars

\* C8 witness: a join of a call started by another connection has
\* succeeded, the joiner having changed its language before.
C8_Witness ==
    /\ handled.event = "join-call"
    /\ handled.socket \in Recipients({"joined-call"})
    /\ handled.arg \in DOMAIN calls
    /\ calls[handled.arg].participants[1] # handled.socket
    /\ shortLanguage[handled.socket] # En

\* C9: an offer, answer or ice-candidate sent by S with the id of a live
\* call is delivered, unchanged and under its own event name, to every
\* connected member of that call other than S, and not to S.
C9_RelayToOtherMembers ==
    (handled.event \in RelayKinds /\ handled.arg \in DOMAIN calls)
        => /\ \A p \in Members(handled.arg) :
                  (conn[p] = "connected" /\ p # handled.socket)
                      => p \in Recipients({handled.event})
           /\ handled.socket \notin Recipients(RelayKinds)
           /\ \A i \in 1..Len(emitted) :
                  emitted[i].event = handled.event /\ emitted[i].payload \in SdpPayloads

\* C9 witness: a member of a live call relayed a message and another
\* member received it.
C9_Witness ==
    /\ handled.event \in RelayKinds
    /\ handled.arg \in DOMAIN calls
    /\ handled.socket \in Members(handled.arg)
    /\ \E p \in Members(handled.arg) :
           p # handled.socket /\ p \in Recipients({handled.event})

\* C10: a signaling message naming a live call, sent by a connection that
\* is not in that call's participant list, is delivered to no member of
\* the call.
C10_RelayChecksSender ==
    (/\ handled.event \in RelayKinds
     /\ handled.arg \in DOMAIN calls
     /\ handled.socket \notin Members(handled.arg))
        => Recipients(RelayKinds) \cap Members(handled.arg) = {}

\* C11: an offer, answer or ice-candidate whose call id names no call in
\* the registry is delivered to no connection.
C11_RelayDropsUnknownCall ==
    (handled.event \in RelayKinds /\ handled.arg \notin DOMAIN calls)
        => emitted = <<>>

\* C11, the case of a deleted call: a message naming a call id that is no
\* longer in the registry reaches no connection still in its room.
C11_DeletedCallRoom ==
    (/\ handled.event \in RelayKinds
     /\ handled.arg \in CallIds
     /\ handled.arg \notin DOMAIN calls)
        => emitted = <<>>

\* the language recorded in langs for the connection q, "en" when none is
RecordedLang(langs, q) == IF q \in DOMAIN langs THEN langs[q] ELSE En

\* the connections of arr from position start on that are reached before
\* any participant whose recorded language differs from Ls
SameLanguagePrefix(arr, start, P, langs, Ls) ==
    {arr[i] : i \in {k \in start..Len(arr) :
                        /\ arr[k] # P
                        /\ conn[arr[k]] = "connected"
                        /\ \A j \in start..k :
                               arr[j] = P \/ RecordedLang(langs, arr[j]) = Ls}}

\* out holds, for M, the caption of text left untranslated in language Ls
HasSameLanguageCaption(out, M, text, Ls) ==
    \E k \in 1..Len(out) :
        out[k] = Msg(M, "translated-transcript", Caption(text, text, Ls, Ls))

\* C12: when the fan-out of a final transcript of P (short language Ls)
\* reaches a member M whose recorded language is Ls, M is sent the caption
\* {original: t, translated: t, from: Ls, to: Ls} in that same step, and no
\* translation request is ever made with equal source and target.
C12_SameLanguageShortcut ==
    [][/\ (/\ handled'.event = "data"
            /\ handled'.arg = "final"
            /\ currentCallId[handled'.socket] \in DOMAIN calls)
              => LET P == handled'.socket
                     call == calls[currentCallId[P]]
                 IN  \A M \in SameLanguagePrefix(call.participants, 1, P,
                                     call.languages, shortLanguage[P]) :
                        HasSameLanguageCaption(emitted', M, FinalText(finals'[P]),
                                               shortLanguage[P])
       /\ handled'.event = "translated"
              => \A t \in tasks \ tasks' :
                    \A M \in SameLanguagePrefix(TaskArray(t), t.idx, t.speaker,
                                     TaskLangs(t), shortLanguage[t.speaker]) :
                        HasSameLanguageCaption(emitted', M, t.text,
                                               shortLanguage[t.speaker])
       /\ \A t \in tasks' : t.src # t.tgt]_vars

\* C12 witness: a final transcript was handled, a member of the same
\* language got its caption at once and no translation was requested.
C12_Witness ==
    /\ handled.event = "data"
    /\ handled.arg = "final"
    /\ tasks = {}
    /\ \E k \in 1..Len(emitted) :
           /\ emitted[k].event = "translated-transcript"
           /\ emitted[k].to # handled.socket
           /\ emitted[k].payload.translated = emitted[k].payload.original
           /\ emitted[k].payload.from = emitted[k].payload.to

\* out holds the message of the given event and payload for the connection q
Sent(out, q, event, payload) ==
    \E k \in 1..Len(out) : out[k] = Msg(q, event, payload)

\* C13: when the translation of the final transcript t of P, requested from
\* Ls to the language Lq # Ls recorded for the member Q, succeeds with
\* result r, Q is sent {original: t, translated: r, from: Ls, to: Lq}.
C13_TranslatedCaption ==
    [][(handled'.event = "translated" /\ handled'.arg = "ok")
          => \A t \in tasks \ tasks' :
                conn[t.to] = "connected"
                   => Sent(emitted', t.to, "translated-transcript",
                           Caption(t.text, Translated(t.text, t.src, t.tgt),
                                   t.src, t.tgt))]_vars

\* C13, the case of a speaker whose language is the same when the
\* translation returns as when it was requested.
C13_SpeakerKeptLanguage ==
    [][(handled'.event = "translated" /\ handled'.arg = "ok")
          => \A t \in tasks \ tasks' :
                (conn[t.to] = "connected" /\ shortLanguage[t.speaker] = t.src)
                   => Sent(emitted', t.to, "translated-transcript",
                           Caption(t.text, Translated(t.text, t.src, t.tgt),
                                   t.src, t.tgt))]_vars

\* the ways a translation request fails on the network or on its status
RequestFailures == {"httpError", "networkError"}

\* C14: when the translation request for a recipient fails with a network
\* error or a non-success status, the recipient is still sent a
\* translated-transcript for that transcript, with translated equal to the
\* original text.
C14_FailedTranslationFallsBack ==
    [][(handled'.event = "translated" /\ handled'.arg \in RequestFailures)
          => \A t \in tasks \ tasks' :
                conn[t.to] = "connected"
                   => \E k \in 1..Len(emitted') :
                         /\ emitted'[k].to = t.to
                         /\ emitted'[k].event = "translated-transcript"
                         /\ emitted'[k].payload.original = t.text
                         /\ emitted'[k].payload.translated = t.text
                         /\ emitted'[k].payload.to = t.tgt]_vars

\* C14 witness: a translation request has failed and the recipient, whose
\* language differs from the speaker's, got the caption with the original
\* text in place of the translation.
C14_Witness ==
    /\ handled.event = "translated"
    /\ handled.arg \in RequestFailures
    /\ \E k \in 1..Len(emitted) :
           /\ emitted[k].event = "translated-transcript"
           /\ emitted[k].to # handled.socket
           /\ emitted[k].payload.translated = emitted[k].payload.original
           /\ emitted[k].payload.original # EmptyText
           /\ emitted[k].payload.from # emitted[k].payload.to

\* C15: when the translation endpoint answers with a success status and a
\* JSON body whose translation field is missing or empty, the caption sent
\* to the recipient has translated equal to the original transcript text.
C15_MalformedBodyFallsBack ==
    [][(handled'.event = "translated" /\ handled'.arg = "noTranslation")
          => \A t \in tasks \ tasks' :
                conn[t.to] = "connected"
                   => \E k \in 1..Len(emitted') :
                         /\ emitted'[k].to = t.to
                         /\ emitted'[k].event = "translated-transcript"
                         /\ emitted'[k].payload.original = t.text
                         /\ emitted'[k].payload.translated = t.text]_vars

\* C16: a partial transcript event of P's recognition session sends exactly
\* one transcript event, to P, sends no translated-transcript to any
\* connection and starts no translation, whatever call P is or is not in.
C16_PartialIsNotFannedOut ==
    [][(handled'.event = "data" /\ handled'.arg = "partial")
          => /\ conn[handled'.socket] = "connected"
                  => emitted' = <<Msg(handled'.socket, "transcript", PartialText)>>
             /\ \A k \in 1..Len(emitted') :
                    /\ emitted'[k].event = "transcript"
                    /\ emitted'[k].to = handled'.socket
             /\ tasks' = tasks
             /\ captionLog' = captionLog]_vars

\* C16 witness: a partial transcript was handled for a speaker whose call
\* has another connected member, and only the speaker was sent anything.
C16_Witness ==
    /\ handled.event = "data"
    /\ handled.arg = "partial"
    /\ currentCallId[handled.socket] \in DOMAIN calls
    /\ \E q \in Sockets \ {handled.socket} :
           /\ conn[q] = "connected"
           /\ q \in Members(currentCallId[handled.socket])
    /\ emitted = <<Msg(handled.socket, "transcript", PartialText)>>

\* C17: the captions of one speaker reach a recipient in the order in which
\* the speaker's recognition session emitted the final transcripts: no
\* recipient is sent the caption of a later transcript before that of an
\* earlier one.
C17_CaptionsInSessionOrder ==
    \A q \in Sockets :
        \A i, j \in 1..Len(captionLog[q]) :
            (i < j /\ captionLog[q][i][1] = captionLog[q][j][1])
               => captionLog[q][i][2] <= captionLog[q][j][2]

\* the recipient q was sent the caption of transcript seq of the speaker
WasSentCaption(q, speaker, seq) ==
    \E i \in 1..Len(captionLog[q]) : captionLog[q][i] = <<speaker, seq>>

\* C18: delivery to each recipient is independent: when the translation
\* requested for a member M1 never completes, no other connected member M2
\* of the call is left behind it without its caption of that transcript.
C18_HungTranslationBlocksNobody ==
    \A t \in tasks :
        t.hung =>
            \A i \in t.idx..Len(TaskArray(t)) :
                LET M2 == TaskArray(t)[i]
                IN  (M2 # t.speaker /\ M2 # t.to /\ conn[M2] = "connected")
                       => WasSentCaption(M2, t.speaker, t.seq)

\* C19: a recognition-session error is recoverable: once the session of P
\* has emitted an error the connection holds no session any more, and the
\* next audio-data chunk of P opens a fresh session instead of being
\* written to the errored one.
C19_SessionErrorRecovers ==
    [][/\ handled'.event = "stream-error"
              => ~recognizeStream'[handled'.socket]
       /\ (/\ handled'.event = "audio-data"
            /\ handled'.arg = "ok"
            /\ stream[handled'.socket] = "errored")
              => stream'[handled'.socket] = "open"]_vars

\* C19, the audio-data chunk alone: a chunk that arrives after the error
\* leaves P with an open session.
C19_ChunkAfterErrorReopens ==
    [][(/\ handled'.event = "audio-data"
        /\ handled'.arg = "ok"
        /\ stream[handled'.socket] = "errored")
          => stream'[handled'.socket] = "open"]_vars

\* the steps in which the handler of a transcript event of a session runs
TranscriptSteps == {"data", "translated"}

\* C20: once the disconnect of P has been handled, no transcript event of
\* P's closed session is processed: nothing is emitted to P and no
\* translated-transcript that originates from P is delivered to anyone.
C20_NothingAfterDisconnect ==
    (/\ handled.event \in TranscriptSteps
     /\ conn[handled.socket] = "disconnected") => emitted = <<>>

\* C20, the in-flight work alone: a translation that returns after the
\* disconnect of the speaker delivers nothing.
C20_InFlightWorkCancelled ==
    (/\ handled.event = "translated"
     /\ conn[handled.socket] = "disconnected") => emitted = <<>>

\* C20, the closed session alone: a result the session delivers after the
\* disconnect of the speaker is sent to nobody.
C20_ClosedSessionIsSilent ==
    (/\ handled.event = "data"
     /\ conn[handled.socket] = "disconnected") => emitted = <<>>

\* C21: the steps of the disconnect teardown are independent: when closing
\* the recognition session throws during the disconnect of P, P is still
\* removed from the participants and the language map of its call, and the
\* call is deleted if that leaves it empty.
C21_TeardownSurvivesCloseFailure ==
    (handled.event = "disconnect" /\ handled.arg = "endThrows")
       => LET P == handled.socket
              id == currentCallId[P]
          IN  id \in DOMAIN calls
                 => /\ P \notin Members(id)
                    /\ P \notin DOMAIN calls[id].languages

\* C22: a connection has at most one recognition session open at a time:
\* it has none before its first audio-data chunk, only an audio-data chunk
\* of the connection opens one, the first chunk does, and a chunk handled
\* while the session is open goes to that session and opens no other.
C22_OneSessionPerConnection ==
    [][\A s \in Sockets :
          /\ (sessions[s] = 0) <=> (stream[s] = "none")
          /\ sessions'[s] # sessions[s]
                 => (handled'.event = "audio-data" /\ handled'.socket = s)
          /\ (handled'.event = "audio-data" /\ handled'.socket = s)
                 => /\ (sessions[s] = 0 /\ handled'.arg # "openThrows")
                          => (sessions'[s] = 1 /\ stream'[s] = "open")
                    /\ stream[s] = "open"
                          => (sessions'[s] = sessions[s] /\ stream'[s] = "open")]_vars

\* C22 witness: a chunk was handled for a connection whose session had
\* already delivered a final transcript, and the connection still has the
\* one session it opened.
C22_Witness ==
    /\ handled.event = "audio-data"
    /\ handled.arg = "ok"
    /\ finals[handled.socket] > 0
    /\ stream[handled.socket] = "open"
    /\ sessions[handled.socket] = 1

\* C23: a join-call whose identifier names no call of the registry sends
\* call-error to the requester and nothing else to anyone, and leaves the
\* registry and the requester's current call unchanged.
C23_JoinUnknownCallIsRejected ==
    [][(handled'.event = "join-call" /\ handled'.arg \notin DOMAIN calls)
          => /\ emitted' = <<Msg(handled'.socket, "call-error",
                                 "Call does not exist!")>>
             /\ calls' = calls
             /\ currentCallId' = currentCallId
             /\ rooms' = rooms]_vars

\* C23, for the identifiers start-call generates: one that names no call
\* of the registry is rejected as the claim says.
C23_UnknownGeneratedId ==
    [][(/\ handled'.event = "join-call"
        /\ handled'.arg \in CallIds
        /\ handled'.arg \notin DOMAIN calls)
          => /\ emitted' = <<Msg(handled'.socket, "call-error",
                                 "Call does not exist!")>>
             /\ calls' = calls
             /\ currentCallId' = currentCallId
             /\ rooms' = rooms]_vars

\* C24: the reply to get-active-calls reflects the registry at the time of
\* the request: it is sent to the requester alone and lists the identifier
\* of every call of the registry, each once, and no other identifier.
C24_ActiveCallsReflectRegistry ==
    handled.event = "get-active-calls"
       => /\ Len(emitted) = 1
          /\ emitted[1].to = handled.socket
          /\ emitted[1].event = "active-calls"
          /\ {e.callId : e \in emitted[1].payload} = DOMAIN calls
          /\ Cardinality(emitted[1].payload) = Cardinality(DOMAIN calls)

\* C24 witness: a reply that lists two calls, one of which no connected
\* participant is left in.
C24_Witness ==
    /\ handled.event = "get-active-calls"
    /\ Cardinality(DOMAIN calls) = 2
    /\ Len(emitted) = 1
    /\ Cardinality(emitted[1].payload) = 2
    /\ \E id \in DOMAIN calls : \A p \in Members(id) : conn[p] # "connected"

\* C25: the disconnect of a connection that never issued a successful
\* start-call or join-call leaves the registry unchanged and raises no
\* error (the close of the session does not fail: that case is C21).
C25_DisconnectOutsideCalls ==
    [][(/\ handled'.event = "disconnect"
        /\ handled'.arg # "endThrows"
        /\ rooms[handled'.socket] \cap CallIds = {})
          => (calls' = calls /\ handled'.arg = "ok")]_vars

\* C25 witness: a connection that streamed audio and was never in a call
\* has disconnected while the registry holds a call.
C25_Witness ==
    /\ handled.event = "disconnect"
    /\ handled.arg = "ok"
    /\ currentCallId[handled.socket] = Null
    /\ stream[handled.socket] = "ended"
    /\ DOMAIN calls # {}

\* the connection p is a participant of no call of the registry
InNoCall(p) == \A id \in DOMAIN calls : p \notin Members(id)

\* C26: a set-language of a connection that is in no call changes only the
\* language cached for that connection and leaves the registry unchanged;
\* a join-call records the cached short tag for the joiner; a set-language
\* of a member of a call sets the member's entry in the language map of its
\* call to the new short tag.
C26_SetLanguageFrame ==
    [][/\ (handled'.event = "set-language" /\ InNoCall(handled'.socket))
              => /\ calls' = calls
                 /\ shortLanguage'[handled'.socket] =
                        ShortLang(FullLang(handled'.arg))
                 /\ \A q \in Sockets \ {handled'.socket} :
                        /\ shortLanguage'[q] = shortLanguage[q]
                        /\ sttLanguage'[q] = sttLanguage[q]
                 /\ UNCHANGED <<currentCallId, rooms, conn, recognizeStream>>
       /\ (/\ handled'.event = "join-call"
            /\ handled'.arg \in DOMAIN calls)
              => /\ handled'.socket \in DOMAIN calls'[handled'.arg].languages
                 /\ calls'[handled'.arg].languages[handled'.socket] =
                        shortLanguage[handled'.socket]
       /\ (/\ handled'.event = "set-language"
            /\ currentCallId[handled'.socket] \in DOMAIN calls
            /\ handled'.socket \in Members(currentCallId[handled'.socket]))
              => LET id == currentCallId[handled'.socket]
                 IN  /\ handled'.socket \in DOMAIN calls'[id].languages
                     /\ calls'[id].languages[handled'.socket] =
                            ShortLang(FullLang(handled'.arg))]_vars

\* C27: a start-call with no payload is accepted: it creates a call whose
\* only participant is the sender, with owner name "Unknown" and language
\* "en-US", sends call-id to the sender and call-started to every
\* connection.
C27_StartCallWithoutPayload ==
    (handled.event = "start-call" /\ handled.arg = Null)
       => \E id \in DOMAIN calls :
             /\ calls[id].participants = <<handled.socket>>
             /\ calls[id].ownerName = "Unknown"
             /\ calls[id].ownerLang = EnUS
             /\ Sent(emitted, handled.socket, "call-id", id)
             /\ \A q \in Sockets :
                    conn[q] = "connected" => Sent(emitted, q, "call-started", id)

\* how many captions of the transcript seq of speaker the recipient q got
CaptionCount(q, speaker, seq) ==
    Cardinality({i \in 1..Len(captionLog[q]) :
                    captionLog[q][i] = <<speaker, seq>>})

\* C28: for each final transcript of P, every other connected member of
\* P's call is sent exactly one translated-transcript: never more than one
\* and, once the fan-out of the transcript has ended, not none.
C28_ExactlyOneCaption ==
    /\ \A q \in Sockets, P \in Sockets :
           \A n \in 1..finals[P] : CaptionCount(q, P, n) <= 1
    /\ (handled.event = "data" /\ handled.arg = "final")
           => LET P == handled.socket
                  id == currentCallId[P]
              IN  (/\ id \in DOMAIN calls
                   /\ P \in Members(id)
                   /\ ~ \E t \in tasks : t.speaker = P /\ t.seq = finals[P])
                     => \A q \in Members(id) \ {P} :
                           conn[q] = "connected"
                              => CaptionCount(q, P, finals[P]) = 1

\* the short tags a connection can have
ShortTags == {ShortLang(FullLang(l)) : l \in Locales}

\* C29: the language tags of a delivered caption agree with how it was
\* produced, also when the speaker issues set-language while a translation
\* is in flight: the from tag is the source language that was passed to
\* the translation request, and no caption has from equal to to together
\* with a text that came from a translation request.
C29_CaptionTagsConsistent ==
    [][/\ handled'.event = "translated"
              => \A t \in tasks \ tasks' :
                    \A k \in 1..Len(emitted') :
                        (/\ emitted'[k].to = t.to
                         /\ emitted'[k].payload.to = t.tgt
                         /\ emitted'[k].payload.translated # t.text)
                           => emitted'[k].payload.from = t.src
       /\ \A k \in 1..Len(emitted') :
              emitted'[k].event = "translated-transcript"
                 => ~ /\ emitted'[k].payload.from = emitted'[k].payload.to
                      /\ \E src \in ShortTags :
                            emitted'[k].payload.translated =
                               Translated(emitted'[k].payload.original, src,
                                          emitted'[k].payload.to)]_vars

\* C30: the recipients of the captions of a final transcript are other
\* members the speaker's call had when the transcript was received: a
\* connection that joins while the fan-out is suspended on a translation
\* gets no caption for that transcript.
C30_RecipientsFixedAtTranscript ==
    [][handled'.event = "translated"
          => \A t \in tasks \ tasks' :
                \A k \in 1..Len(emitted') :
                    emitted'[k].event = "translated-transcript"
                       => emitted'[k].to \in t.audience]_vars

====
